---- MODULE Spec2Model ----
(***************************************************************************)
(* librawincov: DOCX -> PDF through a located LibreOffice executable.      *)
(*   converter.py  find_libreoffice, _windows_to_wsl_path,                 *)
(*                 _build_convert_command, convert_docx_to_pdf             *)
(*   cli.py        main                                                    *)
(* Path strings are sequences of one-character strings; executables and    *)
(* override paths are named by string tokens; a file's content is a        *)
(* sequence of chunks, each tagged with the call that produced it.         *)
(***************************************************************************)
EXTENDS Integers, Sequences, FiniteSets, TLC

\* ------------------------------------------------------------- bounds
\* longest path string given to the path translator
MaxLen == 4
\* longest captured error stream of the external process
MaxErr == 2
\* number of ancestor directories of the output path that are tracked
Depth == 2
\* number of chunks a produced PDF is written in
NumChunks == 2

VARIABLES
    \* ambient state read by find_libreoffice
    envPath,      \* os.environ.get("LIBREOFFICE_PATH"); Unset stands for None
    existing,     \* the locator paths for which Path.exists() is true
    system,       \* platform.system()
    onPath,       \* the names shutil.which() finds
    \* results of the two pure functions when applied on their own
    path_str,     \* str(win_path.resolve()) given to _windows_to_wsl_path
    translated,   \* [done, value]: what _windows_to_wsl_path returned
    found,        \* what find_libreoffice returned (or raised)
    \* file system on the output side and the temporary directories
    inputExists,  \* args.input.exists()
    anc,          \* anc[Depth] is output_path.parent, anc[1] its outermost tracked ancestor
    out,          \* the entry at output_path
    sameFs,       \* os.rename from the temporary directory to the output works
    tmp,          \* tmp[c]: the temporary directory of call c
    \* the calls
    calls,        \* the calls taking part in this run
    viaCli,       \* viaCli[c]: the call is made by cli.main
    stem,         \* stem[c]: input_path.stem
    pc,           \* pc[c]: position of call c
    loc,          \* loc[c]: (soffice_path, use_wsl)
    command,      \* command[c]
    result,       \* result[c]: the CompletedProcess
    offset,       \* offset[c]: chunks already copied by shutil.move's copy
    exc,          \* exc[c]: the exception in flight or raised
    exit,         \* exit[c]: the process exit status of the CLI run
    \* history
    out0, anc0,   \* the output side before any call
    acquired,     \* acquired[c]: a temporary directory was created
    spawned,      \* spawned[c]: subprocess.run was called
    entered,      \* entered[c]: convert_docx_to_pdf was called
    moveOrder     \* the calls in the order their relocation wrote its last chunk

envVars == <<envPath, existing, system, onPath>>
fnVars == <<path_str, translated, found>>
fsVars == <<inputExists, anc, out, sameFs, tmp>>
callVars == <<calls, viaCli, stem, pc, loc, command, result, offset, exc, exit>>
histVars == <<out0, anc0, acquired, spawned, entered, moveOrder>>
vars == <<envVars, fnVars, fsVars, callVars, histVars>>

\* ------------------------------------------------------------- strings
Max(a, b) == IF a < b THEN b ELSE a

Strings(alphabet, n) == UNION {[1..k -> alphabet] : k \in 0..n}

\* str.replace("\\", "/")
ReplaceBackslash(s) == [i \in 1..Len(s) |-> IF s[i] = "\\" THEN "/" ELSE s[i]]

\* str.lower(), on the characters of PathAlphabet
Lower(ch) == CASE ch = "C" -> "c" [] OTHER -> ch

Whitespace == {" ", "\n"}

\* str.strip(): leading and trailing whitespace removed
RECURSIVE LStrip(_)
LStrip(s) == IF s # <<>> /\ Head(s) \in Whitespace THEN LStrip(Tail(s)) ELSE s

RECURSIVE RStrip(_)
RStrip(s) ==
    IF s # <<>> /\ s[Len(s)] \in Whitespace THEN RStrip(SubSeq(s, 1, Len(s) - 1)) ELSE s

Strip(s) == RStrip(LStrip(s))

\* ------------------------------------------------------------- _windows_to_wsl_path
PathAlphabet == {"C", "c", "1", "a", ":", "\\", "/"}

\* the strings Path.resolve() can give: rooted at "/", at a drive ("x:\") or at "\\"
IsAbsolute(s) ==
    /\ Len(s) >= 1
    /\ \/ s[1] = "/"
       \/ Len(s) >= 3 /\ s[2] = ":" /\ s[3] = "\\" /\ s[1] \notin {"/", "\\", ":"}
       \/ Len(s) >= 2 /\ s[1] = "\\" /\ s[2] = "\\"

AbsolutePaths == {s \in Strings(PathAlphabet, MaxLen) : IsAbsolute(s)}

MntPrefix == <<"/", "m", "n", "t", "/">>

WindowsToWslPath(s) ==
    IF Len(s) >= 2 /\ s[2] = ":"
    THEN MntPrefix \o <<Lower(s[1])>> \o ReplaceBackslash(SubSeq(s, 3, Len(s)))
    ELSE ReplaceBackslash(s)

\* ------------------------------------------------------------- find_libreoffice
Unset == "<unset>"
OverridePath == "/opt/lo/soffice"
Candidates ==
    << "C:\\Program Files\\LibreOffice\\program\\soffice.exe",
       "C:\\Program Files (x86)\\LibreOffice\\program\\soffice.exe" >>
Names == {"soffice.exe", "soffice", "libreoffice", "wsl"}
Systems == {"Windows", "Linux", "Darwin"}
EnvValues == {Unset, "", OverridePath, Candidates[1]}
LocatorPaths == {OverridePath, Candidates[1], Candidates[2]}

\* shutil.which(name): the path found, "" standing for None
Which(name) ==
    IF name \notin onPath THEN ""
    ELSE CASE name = "soffice.exe" -> "/path/soffice.exe"
           [] name = "soffice" -> "/path/soffice"
           [] name = "libreoffice" -> "/path/libreoffice"
           [] OTHER -> "/path/wsl"

\* A result of the locator: the pair it returns or the error it raises, with
\* the probes (which / exists calls after the override test) made on the way.
Found(p, wsl, probes) ==
    [kind |-> "ok", path |-> p, use_wsl |-> wsl, msg |-> "", probes |-> probes]
NotFound(m, probes) ==
    [kind |-> "FileNotFoundError", path |-> "", use_wsl |-> FALSE, msg |-> m,
     probes |-> probes]
Miss(probes) == NotFound("", probes)
NoResult == [kind |-> "none", path |-> "", use_wsl |-> FALSE, msg |-> "", probes |-> <<>>]

\* for name in names: found = shutil.which(name); if found: return Path(found), False
RECURSIVE WhichFirst(_, _)
WhichFirst(names, probes) ==
    IF names = <<>> THEN Miss(probes)
    ELSE LET p == Append(probes, <<"which", Head(names)>>)
         IN  IF Which(Head(names)) # ""
             THEN Found(Which(Head(names)), FALSE, p)
             ELSE WhichFirst(Tail(names), p)

\* for raw in candidates: if Path(raw).exists(): return candidate, False
RECURSIVE ExistsFirst(_, _)
ExistsFirst(cands, probes) ==
    IF cands = <<>> THEN Miss(probes)
    ELSE LET p == Append(probes, <<"exists", Head(cands)>>)
         IN  IF Head(cands) \in existing
             THEN Found(Head(cands), FALSE, p)
             ELSE ExistsFirst(Tail(cands), p)

BridgeProbe(probes) ==
    LET p == Append(probes, <<"which", "wsl">>)
    IN  IF Which("wsl") # "" THEN Found("wsl", TRUE, p) ELSE Miss(p)

WindowsBranchBridgeFirst ==
    LET a == WhichFirst(<<"soffice.exe", "soffice">>, <<>>)
    IN  IF a.kind = "ok" THEN a
        ELSE LET w == BridgeProbe(a.probes)
             IN  IF w.kind = "ok" THEN w ELSE ExistsFirst(Candidates, w.probes)

\* the body of `if platform.system() == "Windows":`
WindowsBranch ==
    LET a == WhichFirst(<<"soffice.exe", "soffice">>, <<>>)
    IN  IF a.kind = "ok" THEN a
        ELSE LET b == ExistsFirst(Candidates, a.probes)
             IN  IF b.kind = "ok" THEN b ELSE BridgeProbe(b.probes)

AutoDetect ==
    LET win == IF system = "Windows" THEN WindowsBranch ELSE Miss(<<>>)
    IN  IF win.kind = "ok" THEN win
        ELSE LET w == WhichFirst(<<"soffice", "libreoffice">>, win.probes)
             IN  IF w.kind = "ok" THEN w
                 ELSE NotFound("LibreOffice not found. Install it, set LIBREOFFICE_PATH, or use WSL.",
                               w.probes)

OverrideFallThrough(p) ==
    IF p \in existing THEN Found(p, FALSE, <<>>) ELSE AutoDetect

OverrideAfterDetect(p) ==
    IF AutoDetect.kind = "ok" THEN AutoDetect
    ELSE IF p \in existing THEN Found(p, FALSE, <<>>)
    ELSE NotFound("LIBREOFFICE_PATH not found", <<>>)

\* the `if env_path:` block
Override(p) ==
    IF p \in existing THEN Found(p, FALSE, <<>>)
    ELSE NotFound("LIBREOFFICE_PATH not found", <<>>)

FindLibreoffice ==
    IF envPath # Unset /\ envPath # "" THEN Override(envPath) ELSE AutoDetect

\* ------------------------------------------------------------- _build_convert_command
Flags == <<"--headless", "--convert-to", "pdf", "--outdir">>

\* The argument list is launcher \o flags \o <<outdir, input>>.
BuildConvertCommand(soffice_path, input_path, out_dir, use_wsl) ==
    IF use_wsl
    THEN [launcher |-> <<"wsl", "soffice">>, flags |-> Flags,
          outdir |-> WindowsToWslPath(out_dir), input |-> WindowsToWslPath(input_path)]
    ELSE [launcher |-> <<soffice_path>>, flags |-> Flags,
          outdir |-> out_dir, input |-> input_path]

NoCommand == [launcher |-> <<>>, flags |-> <<>>, outdir |-> <<>>, input |-> <<>>]

\* ------------------------------------------------------------- files
AllCalls == {"a", "b"}
Stems == {"r", "s"}

Absent == [present |-> FALSE, data |-> <<>>]
File(d) == [present |-> TRUE, data |-> d]
OldData == [i \in 1..NumChunks |-> "old"]
\* what the external process writes for call c
Product(c) == [i \in 1..NumChunks |-> c]

\* a write of one chunk at position k through a descriptor whose file may have
\* been truncated since: the gap reads as zero bytes
WriteAt(d, k, v) ==
    [i \in 1..Max(Len(d), k) |-> IF i = k THEN v ELSE IF i <= Len(d) THEN d[i] ELSE "hole"]

\* the absolute forms of the temporary directory and of the input file
TmpPath(c) == IF system = "Windows" THEN <<"C", ":", "\\", "t", c>> ELSE <<"/", "t", c>>
InputPath(c) ==
    IF system = "Windows" THEN <<"C", ":", "\\", stem[c], ".", "d">>
    ELSE <<"/", stem[c], ".", "d">>

AllDirs == [i \in 1..Depth |-> "dir"]
ValidAnc(a) == \A i \in 1..(Depth - 1) : a[i] # "dir" => a[i + 1] = "missing"

\* ------------------------------------------------------------- exceptions
NoExc == [type |-> "none", at |-> "", text |-> "", captured |-> <<>>]
Exc(type, at, text) == [type |-> type, at |-> at, text |-> text, captured |-> <<>>]
NoRun == [returncode |-> -1, stderr |-> <<>>, wrote |-> FALSE]
NoExit == [status |-> -1, how |-> "none"]

ErrAlphabet == {" ", "e"}

ErrorMessageUntrimmed(stderr) ==
    IF stderr # <<>>
    THEN [type |-> "RuntimeError", at |-> "exit", text |-> "", captured |-> stderr]
    ELSE Exc("RuntimeError", "exit", "LibreOffice conversion failed.")

\* stderr = result.stderr.strip() or "LibreOffice conversion failed."
ErrorMessage(stderr) ==
    IF Strip(stderr) # <<>>
    THEN [type |-> "RuntimeError", at |-> "exit", text |-> "", captured |-> Strip(stderr)]
    ELSE Exc("RuntimeError", "exit", "LibreOffice conversion failed.")

\* the two checks after subprocess.run: NoExc when both pass
Validation(res, pdfPresent) ==
    IF res.returncode # 0 THEN ErrorMessage(res.stderr)
    ELSE IF ~pdfPresent
    THEN Exc("RuntimeError", "nopdf", "LibreOffice did not produce a PDF output.")
    ELSE NoExc

\* ------------------------------------------------------------- initial states
InitFn ==
    /\ path_str = <<>>
    /\ translated = [done |-> FALSE, value |-> <<>>]
    /\ found = NoResult

InitEnvAll ==
    /\ envPath \in EnvValues
    /\ existing \in SUBSET LocatorPaths
    /\ system \in Systems
    /\ onPath \in SUBSET Names

\* the environments of the conversion runs: override set or not, present or
\* not; a native executable, only the bridge launcher, or nothing on the path
InitEnvConvert ==
    /\ envPath \in {Unset, OverridePath}
    /\ existing \in {{}, {OverridePath}}
    /\ system \in {"Windows", "Linux"}
    /\ onPath \in {{}, {"soffice"}, {"wsl"}}

InitFs ==
    /\ inputExists \in BOOLEAN
    /\ sameFs \in BOOLEAN
    /\ anc \in {a \in [1..Depth -> {"dir", "missing", "file"}] : ValidAnc(a)}
    /\ out \in [kind : {"none", "file", "dir"}, data : {<<>>, OldData},
                children : [Stems -> {Absent, File(OldData)}]]
    /\ out.kind # "none" => anc = AllDirs
    /\ (out.kind = "file") = (out.data = OldData)
    /\ \A s \in Stems :
          out.children[s].present => out.kind = "dir" /\ \E c \in calls : stem[c] = s
    /\ tmp = [c \in AllCalls |-> [exists |-> FALSE, pdf |-> Absent]]
    /\ out0 = out
    /\ anc0 = anc

InitCalls(cs) ==
    /\ calls = cs
    /\ viaCli \in [AllCalls -> BOOLEAN]
    /\ \A c \in AllCalls \ cs : ~viaCli[c]
    /\ stem \in [AllCalls -> Stems]
    /\ stem["a"] = "r"
    /\ \A c \in AllCalls \ cs : stem[c] = "r"
    /\ pc = [c \in AllCalls |->
                IF c \notin cs THEN "idle" ELSE IF viaCli[c] THEN "main" ELSE "convert"]
    /\ loc = [c \in AllCalls |-> NoResult]
    /\ command = [c \in AllCalls |-> NoCommand]
    /\ result = [c \in AllCalls |-> NoRun]
    /\ offset = [c \in AllCalls |-> 0]
    /\ exc = [c \in AllCalls |-> NoExc]
    /\ exit = [c \in AllCalls |-> NoExit]
    /\ acquired = [c \in AllCalls |-> FALSE]
    /\ spawned = [c \in AllCalls |-> FALSE]
    /\ entered = [c \in AllCalls |-> FALSE]
    /\ moveOrder = <<>>

\* one call, from the command line or through the library
Init == InitFn /\ InitEnvConvert /\ InitCalls({"a"}) /\ InitFs

\* two calls racing for the same output path: b from a thread of a host
\* process, a from such a thread or from a command-line run
InitConc ==
    /\ InitFn
    /\ InitEnvConvert
    /\ envPath = Unset /\ existing = {} /\ onPath # {}
    /\ InitCalls(AllCalls)
    /\ ~viaCli["b"]
    /\ InitFs
    /\ inputExists

InitIdle ==
    /\ InitCalls({})
    /\ inputExists = TRUE /\ sameFs = TRUE /\ anc = AllDirs
    /\ out = [kind |-> "none", data |-> <<>>, children |-> [s \in Stems |-> Absent]]
    /\ tmp = [c \in AllCalls |-> [exists |-> FALSE, pdf |-> Absent]]
    /\ out0 = out /\ anc0 = anc

InitLocate == InitEnvAll /\ InitFn /\ InitIdle

InitWsl ==
    /\ InitEnvAll
    /\ envPath = Unset /\ existing = {} /\ onPath = {} /\ system \in {"Windows", "Linux"}
    /\ path_str \in AbsolutePaths
    /\ translated = [done |-> FALSE, value |-> <<>>]
    /\ found = NoResult
    /\ InitIdle

\* ------------------------------------------------------------- the pure functions, applied
FindStep ==
    /\ found.kind = "none"
    /\ found' = FindLibreoffice
    /\ UNCHANGED <<envVars, path_str, translated, fsVars, callVars, histVars>>

TranslateStep ==
    /\ ~translated.done
    /\ translated' = [done |-> TRUE, value |-> WindowsToWslPath(path_str)]
    /\ UNCHANGED <<envVars, path_str, found, fsVars, callVars, histVars>>

\* ------------------------------------------------------------- cli.main
MainReturnZeroOnConversionError(type) == IF type = "FileNotFoundError" THEN 1 ELSE 0

\* the value main returns after the try block, for the outcomes it handles
MainReturn(type) == IF type = "none" THEN 0 ELSE 1

\* sys.exit(main()): main's return value, or the interpreter's status 1 with a
\* traceback when the exception is neither FileNotFoundError nor RuntimeError
ExitOf(type) ==
    IF type \in {"none", "FileNotFoundError", "RuntimeError"}
    THEN [status |-> MainReturn(type), how |-> "return"]
    ELSE [status |-> 1, how |-> "traceback"]

Main(c) ==
    /\ pc[c] = "main"
    /\ IF ~inputExists
       THEN /\ exit' = [exit EXCEPT ![c] = [status |-> 1, how |-> "return"]]
            /\ pc' = [pc EXCEPT ![c] = "exited"]
       ELSE /\ pc' = [pc EXCEPT ![c] = "convert"]
            /\ UNCHANGED exit
    /\ UNCHANGED <<envVars, fnVars, fsVars, histVars>>
    /\ UNCHANGED <<calls, viaCli, stem, loc, command, result, offset, exc>>

MainEnd(c) ==
    /\ pc[c] = "ended"
    /\ viaCli[c]
    /\ exit' = [exit EXCEPT ![c] = ExitOf(exc[c].type)]
    /\ pc' = [pc EXCEPT ![c] = "exited"]
    /\ UNCHANGED <<envVars, fnVars, fsVars, histVars>>
    /\ UNCHANGED <<calls, viaCli, stem, loc, command, result, offset, exc>>

\* ------------------------------------------------------------- convert_docx_to_pdf
Raise(c, e, next) ==
    /\ exc' = [exc EXCEPT ![c] = e]
    /\ pc' = [pc EXCEPT ![c] = next]

\* soffice_path, use_wsl = find_libreoffice(): an error leaves the function at once
Locate(c) ==
    /\ pc[c] = "convert"
    /\ entered' = [entered EXCEPT ![c] = TRUE]
    /\ LET r == FindLibreoffice
       IN  IF r.kind = "ok"
           THEN /\ loc' = [loc EXCEPT ![c] = r]
                /\ pc' = [pc EXCEPT ![c] = "located"]
                /\ UNCHANGED exc
           ELSE /\ Raise(c, Exc("FileNotFoundError", "locate", r.msg), "ended")
                /\ UNCHANGED loc
    /\ UNCHANGED <<envVars, fnVars, fsVars>>
    /\ UNCHANGED <<calls, viaCli, stem, command, result, offset, exit>>
    /\ UNCHANGED <<out0, anc0, acquired, spawned, moveOrder>>

\* with tempfile.TemporaryDirectory() as tmp_dir: ...; command = _build_convert_command(...)
EnterTmp(c) ==
    /\ pc[c] = "located"
    /\ tmp' = [tmp EXCEPT ![c] = [exists |-> TRUE, pdf |-> Absent]]
    /\ acquired' = [acquired EXCEPT ![c] = TRUE]
    /\ command' = [command EXCEPT ![c] =
                      BuildConvertCommand(loc[c].path, InputPath(c), TmpPath(c), loc[c].use_wsl)]
    /\ pc' = [pc EXCEPT ![c] = "spawn"]
    /\ UNCHANGED <<envVars, fnVars, inputExists, anc, out, sameFs>>
    /\ UNCHANGED <<calls, viaCli, stem, loc, result, offset, exc, exit>>
    /\ UNCHANGED <<out0, anc0, spawned, entered, moveOrder>>

\* result = subprocess.run(command, capture_output=True, text=True): the spawn
\* fails (executable gone: FileNotFoundError; not executable: another OSError),
\* or the process runs to its end with any exit code, error stream and output
Run(c) ==
    /\ pc[c] = "spawn"
    /\ spawned' = [spawned EXCEPT ![c] = TRUE]
    /\ \/ /\ \E e \in {"FileNotFoundError", "OSError"} :
                Raise(c, Exc(e, "spawn", "spawn failed"), "unwind")
          /\ UNCHANGED <<result, tmp>>
       \/ /\ \E rc \in {0, 1}, err \in Strings(ErrAlphabet, MaxErr), wrote \in BOOLEAN :
                /\ result' = [result EXCEPT ![c] =
                                 [returncode |-> rc, stderr |-> err, wrote |-> wrote]]
                /\ tmp' = [tmp EXCEPT ![c].pdf =
                              IF wrote THEN File(Product(c)) ELSE Absent]
          /\ pc' = [pc EXCEPT ![c] = "ran"]
          /\ UNCHANGED exc
    /\ UNCHANGED <<envVars, fnVars, inputExists, anc, out, sameFs>>
    /\ UNCHANGED <<calls, viaCli, stem, loc, command, offset, exit>>
    /\ UNCHANGED <<out0, anc0, acquired, entered, moveOrder>>

ValidateAfterMkdir(c) ==
    /\ pc[c] = "ran"
    /\ anc' = IF \E i \in 1..Depth : anc[i] = "file" THEN anc ELSE AllDirs
    /\ LET e == Validation(result[c], tmp[c].pdf.present)
       IN  IF e.type = "none"
           THEN pc' = [pc EXCEPT ![c] = "mkdir"] /\ UNCHANGED exc
           ELSE Raise(c, e, "unwind")
    /\ UNCHANGED <<envVars, fnVars, inputExists, out, sameFs, tmp, histVars>>
    /\ UNCHANGED <<calls, viaCli, stem, loc, command, result, offset, exit>>

\* if result.returncode != 0: raise ...; if not tmp_pdf.exists(): raise ...
Validate(c) ==
    /\ pc[c] = "ran"
    /\ LET e == Validation(result[c], tmp[c].pdf.present)
       IN  IF e.type = "none"
           THEN pc' = [pc EXCEPT ![c] = "mkdir"] /\ UNCHANGED exc
           ELSE Raise(c, e, "unwind")
    /\ UNCHANGED <<envVars, fnVars, fsVars, histVars>>
    /\ UNCHANGED <<calls, viaCli, stem, loc, command, result, offset, exit>>

\* output_path.parent.mkdir(parents=True, exist_ok=True): a file in the place
\* of an ancestor makes it raise (FileExistsError, NotADirectoryError)
MkParents(c) ==
    /\ pc[c] = "mkdir"
    /\ IF \E i \in 1..Depth : anc[i] = "file"
       THEN Raise(c, Exc("OSError", "mkdir", "not a directory"), "unwind") /\ UNCHANGED anc
       ELSE anc' = AllDirs /\ pc' = [pc EXCEPT ![c] = "move"] /\ UNCHANGED exc
    /\ UNCHANGED <<envVars, fnVars, inputExists, out, sameFs, tmp, histVars>>
    /\ UNCHANGED <<calls, viaCli, stem, loc, command, result, offset, exit>>

\* shutil.move's real_dst: inside dst when dst is a directory
Dst(c) == IF out.kind = "dir" THEN out.children[stem[c]] ELSE
          [present |-> out.kind = "file", data |-> out.data]

WithDst(c, d) ==
    IF out.kind = "dir"
    THEN [out EXCEPT !.children[stem[c]] = File(d)]
    ELSE [out EXCEPT !.kind = "file", !.data = d]

\* os.rename works on one file system; on Windows not onto an existing entry
RenameWorks(c) == sameFs /\ ~(system = "Windows" /\ Dst(c).present)

\* shutil.move(str(tmp_pdf), str(output_path)), up to the rename or, when the
\* rename fails, up to the opening of the destination by the copy
Move(c) ==
    /\ pc[c] = "move"
    /\ \/ /\ out.kind = "dir" /\ Dst(c).present
          /\ Raise(c, Exc("OSError", "move", "Destination path already exists"), "unwind")
          /\ UNCHANGED <<out, tmp, offset, moveOrder>>
       \/ /\ ~(out.kind = "dir" /\ Dst(c).present)
          /\ Raise(c, Exc("OSError", "move", "permission denied"), "unwind")
          /\ UNCHANGED <<out, tmp, offset, moveOrder>>
       \/ /\ ~(out.kind = "dir" /\ Dst(c).present)
          /\ RenameWorks(c)
          /\ out' = WithDst(c, tmp[c].pdf.data)
          /\ tmp' = [tmp EXCEPT ![c].pdf = Absent]
          /\ moveOrder' = Append(moveOrder, c)
          /\ pc' = [pc EXCEPT ![c] = "unwind"]
          /\ UNCHANGED <<offset, exc>>
       \/ /\ ~(out.kind = "dir" /\ Dst(c).present)
          /\ ~RenameWorks(c)
          /\ out' = WithDst(c, <<>>)
          /\ offset' = [offset EXCEPT ![c] = 0]
          /\ pc' = [pc EXCEPT ![c] = "copy"]
          /\ UNCHANGED <<tmp, exc, moveOrder>>
    /\ UNCHANGED <<envVars, fnVars, inputExists, anc, sameFs>>
    /\ UNCHANGED <<calls, viaCli, stem, loc, command, result, exit>>
    /\ UNCHANGED <<out0, anc0, acquired, spawned, entered>>

\* the copy of shutil.move: one chunk written at this call's own position
Copy(c) ==
    /\ pc[c] = "copy"
    /\ LET k == offset[c] + 1
       IN  /\ out' = WithDst(c, WriteAt(Dst(c).data, k, tmp[c].pdf.data[k]))
           /\ offset' = [offset EXCEPT ![c] = k]
           /\ IF k = NumChunks
              THEN /\ pc' = [pc EXCEPT ![c] = "unlink"]
                   /\ moveOrder' = Append(moveOrder, c)
              ELSE UNCHANGED <<pc, moveOrder>>
    /\ UNCHANGED <<envVars, fnVars, inputExists, anc, sameFs, tmp>>
    /\ UNCHANGED <<calls, viaCli, stem, loc, command, result, exc, exit>>
    /\ UNCHANGED <<out0, anc0, acquired, spawned, entered>>

\* os.unlink(src) ending the copying move
Unlink(c) ==
    /\ pc[c] = "unlink"
    /\ tmp' = [tmp EXCEPT ![c].pdf = Absent]
    /\ pc' = [pc EXCEPT ![c] = "unwind"]
    /\ UNCHANGED <<envVars, fnVars, inputExists, anc, out, sameFs, histVars>>
    /\ UNCHANGED <<calls, viaCli, stem, loc, command, result, offset, exc, exit>>

CleanupOnSuccessOnly(c) ==
    IF exc[c].type = "none" THEN [exists |-> FALSE, pdf |-> Absent] ELSE tmp[c]

\* TemporaryDirectory.__exit__: the directory and what is in it are removed
CleanedUp(c) == [exists |-> FALSE, pdf |-> Absent]

\* the end of the with block, reached by falling off its end or by an exception
Cleanup(c) ==
    /\ pc[c] = "unwind"
    /\ tmp' = [tmp EXCEPT ![c] = CleanedUp(c)]
    /\ pc' = [pc EXCEPT ![c] = "ended"]
    /\ UNCHANGED <<envVars, fnVars, inputExists, anc, out, sameFs, histVars>>
    /\ UNCHANGED <<calls, viaCli, stem, loc, command, result, offset, exc, exit>>

\* ------------------------------------------------------------- specifications
Next ==
    \/ \E c \in calls : Main(c)
    \/ \E c \in calls : Locate(c)
    \/ \E c \in calls : EnterTmp(c)
    \/ \E c \in calls : Run(c)
    \/ \E c \in calls : Validate(c)
    \/ \E c \in calls : MkParents(c)
    \/ \E c \in calls : Move(c)
    \/ \E c \in calls : Copy(c)
    \/ \E c \in calls : Unlink(c)
    \/ \E c \in calls : Cleanup(c)
    \/ \E c \in calls : MainEnd(c)

Spec == Init /\ [][Next]_vars

SpecConc == InitConc /\ [][Next]_vars

NextLocate == FindStep

SpecLocate == InitLocate /\ [][NextLocate]_vars

NextWsl == TranslateStep

SpecWsl == InitWsl /\ [][NextWsl]_vars

\* ------------------------------------------------------------- claims
Ended(c) == pc[c] \in {"ended", "exited"}
ReturnedNormally(c) == Ended(c) /\ entered[c] /\ exc[c].type = "none"

\* C1: whenever convert_docx_to_pdf returns normally, the produced file is at
\* exactly the requested output path, whatever entry (file or directory) was
\* there before, every missing parent directory has been created and nothing
\* is left at the temporary location.
C1_ProductAtOutputPath ==
    \A c \in calls :
        ReturnedNormally(c) =>
            /\ out.kind = "file" /\ out.data = Product(c)
            /\ anc = AllDirs
            /\ ~tmp[c].exists /\ ~tmp[c].pdf.present

\* m is s without its leading and trailing whitespace
IsTrimOf(m, s) ==
    \E i \in 0..Len(s) : \E j \in i..Len(s) :
        /\ m = SubSeq(s, i + 1, j)
        /\ \A k \in 1..i : s[k] \in Whitespace
        /\ \A k \in (j + 1)..Len(s) : s[k] \in Whitespace
        /\ m # <<>> => m[1] \notin Whitespace /\ m[Len(m)] \notin Whitespace

\* C2: once the executable is located, a run whose process exits non-zero, or
\* exits 0 without <stem>.pdf in the temporary directory, ends with
\* RuntimeError and never returns normally; for a non-zero exit the message is
\* the trimmed error stream, or the generic message when that is empty.
C2_ConversionError ==
    \A c \in calls :
        Ended(c) /\ result[c].returncode # -1 =>
            /\ result[c].returncode # 0 =>
                  /\ exc[c].type = "RuntimeError"
                  /\ IsTrimOf(exc[c].captured, result[c].stderr)
                  /\ (exc[c].captured = <<>>) = (exc[c].text = "LibreOffice conversion failed.")
                  /\ exc[c].captured # <<>> => exc[c].text = ""
            /\ result[c].returncode = 0 /\ ~result[c].wrote =>
                  /\ exc[c].type = "RuntimeError"
                  /\ exc[c].text = "LibreOffice did not produce a PDF output."
            /\ (result[c].returncode # 0 \/ ~result[c].wrote) /\ pc[c] = "exited" =>
                  exit[c].status = 1

C2_Witness ==
    /\ pc["a"] = "ended"
    /\ result["a"].returncode = 1
    /\ result["a"].stderr = <<" ", "e">>
    /\ exc["a"].captured = <<"e">>

\* C3: a call that acquired a temporary directory has none left when it has
\* ended, whether it returned or raised at any point inside the with block.
C3_TmpRemoved ==
    \A c \in calls :
        Ended(c) /\ acquired[c] => ~tmp[c].exists /\ ~tmp[c].pdf.present

C3_Witness ==
    /\ pc["a"] = "ended"
    /\ acquired["a"]
    /\ exc["a"].at = "move"
    /\ ~tmp["a"].exists

OverrideSet == envPath # Unset /\ envPath # ""

\* C4: with LIBREOFFICE_PATH set to an existing path, find_libreoffice returns
\* that path with use_wsl = False on every platform and whatever else is
\* installed.
C4_OverrideWins ==
    found.kind # "none" /\ OverrideSet /\ envPath \in existing =>
        found.kind = "ok" /\ found.path = envPath /\ ~found.use_wsl

C4_Witness ==
    /\ found.kind = "ok"
    /\ envPath = OverridePath
    /\ system = "Windows"
    /\ onPath = Names
    /\ existing = LocatorPaths
    /\ found.path = OverridePath

\* C5: with LIBREOFFICE_PATH set to a path that does not exist,
\* find_libreoffice raises FileNotFoundError without any search-path lookup,
\* install-directory probe or bridge check.
C5_MissingOverrideFails ==
    found.kind # "none" /\ OverrideSet /\ envPath \notin existing =>
        /\ found.kind = "FileNotFoundError"
        /\ found.msg = "LIBREOFFICE_PATH not found"
        /\ found.probes = <<>>

C5_Witness ==
    /\ found.kind = "FileNotFoundError"
    /\ envPath = OverridePath
    /\ system = "Windows"
    /\ onPath = Names
    /\ existing = {Candidates[1], Candidates[2]}

NativeOnPath(names) == onPath \cap names # {}
NativeInstalled == \E i \in 1..Len(Candidates) : Candidates[i] \in existing
WindowsAuto == found.kind # "none" /\ system = "Windows" /\ ~OverrideSet

\* C6: with no override on Windows, a bridged location is returned only when
\* no native probe succeeds: none of soffice.exe, soffice, libreoffice on the
\* search path and no well-known install directory; when any native probe
\* would succeed the result has use_wsl = False.
C6_BridgeLastResort ==
    WindowsAuto =>
        LET native == NativeOnPath({"soffice.exe", "soffice", "libreoffice"}) \/ NativeInstalled
        IN  /\ found.use_wsl => ~native
            /\ native => found.kind = "ok" /\ ~found.use_wsl

\* C6 as amended: the probes ahead of the bridge are soffice.exe and soffice
\* on the search path and the install directories; the bridge is returned
\* exactly when all of them fail and the launcher is on the search path.
C6_BridgeAfterWindowsProbes ==
    WindowsAuto =>
        LET native == NativeOnPath({"soffice.exe", "soffice"}) \/ NativeInstalled
        IN  /\ found.use_wsl => ~native /\ "wsl" \in onPath /\ found.path = "wsl"
            /\ native => found.kind = "ok" /\ ~found.use_wsl
            /\ ~native /\ "wsl" \in onPath => found.kind = "ok" /\ found.use_wsl

C6_Witness ==
    /\ WindowsAuto
    /\ onPath = {"libreoffice", "wsl"}
    /\ existing = {}
    /\ found.use_wsl

\* the letters of PathAlphabet
IsLetter(ch) == ch \in {"C", "c", "a"}

\* the rule of the path translator as specified
SpecifiedTranslation(s) ==
    IF Len(s) >= 2 /\ IsLetter(s[1]) /\ s[2] = ":"
    THEN MntPrefix \o <<Lower(s[1])>> \o ReplaceBackslash(SubSeq(s, 3, Len(s)))
    ELSE ReplaceBackslash(s)

\* C7: for every absolute path string, _windows_to_wsl_path gives
\* /mnt/<lowercased letter><rest with / for \> when the string begins with a
\* drive letter and ':', and otherwise the string with only its backslashes
\* replaced, also when the second character is ':' and the first no letter.
C7_TranslationRule ==
    translated.done => translated.value = SpecifiedTranslation(path_str)

\* C8: a CLI run past argument parsing exits 0 exactly when the conversion
\* completed, and 1 on every error path; a missing input file is found before
\* convert_docx_to_pdf is called.
C8_ExitCodes ==
    \A c \in calls :
        pc[c] = "exited" =>
            /\ exit[c].status \in {0, 1}
            /\ (exit[c].status = 0) = ReturnedNormally(c)
            /\ ~inputExists => exit[c].status = 1 /\ ~entered[c]
            /\ exc[c].at \in {"locate", "spawn", "exit", "nopdf", "mkdir", "move"} =>
                  exit[c].status = 1

C8_Witness ==
    /\ pc["a"] = "exited"
    /\ exc["a"].at = "mkdir"
    /\ exit["a"].status = 1

\* C9: two concurrent calls with the same output path that both return leave
\* at the output path the complete product of one of them, the one whose
\* relocation ran last. (An output path that was a directory is left aside
\* here: see C1.)
C9_LastWriterWins ==
    (\A c \in calls : ReturnedNormally(c)) /\ Len(moveOrder) = 2 /\ out0.kind # "dir" =>
        /\ out.kind = "file"
        /\ out.data = Product(moveOrder[2])

\* C10: when the call fails at the locator, at a non-zero exit or at the
\* missing <stem>.pdf, the output side is as it was: no parent directory
\* created, the previous entry untouched; and a locator failure comes before
\* any temporary directory or process.
C10_FailureLeavesOutput ==
    \A c \in calls :
        Ended(c) /\ exc[c].at \in {"locate", "exit", "nopdf"} =>
            /\ out = out0
            /\ anc = anc0
            /\ exc[c].at = "locate" => ~acquired[c] /\ ~spawned[c] /\ ~tmp[c].exists

C10_Witness ==
    /\ pc["a"] = "ended"
    /\ exc["a"].at = "nopdf"
    /\ anc0 # AllDirs
    /\ anc = anc0
    /\ out = out0

====
